---- MODULE Spec2Model ----
(***************************************************************************)
(* Model of the numeric engine of the Convolution teaching tool:           *)
(*   src/src/convolution_ops.c   convolve, convolve_circular,              *)
(*                               next_power_of_2, fft_recursive,           *)
(*                               ifft_recursive, convolve_fft,             *)
(*                               compute_fft, free_fft_result,             *)
(*                               load_signal_from_file                     *)
(*   src/src/signal_generation.c create_signal, window_signal              *)
(*   src/src/visualization.c     show_signal_spectrogram                   *)
(*   src/include/convolution.h   Signal, Complex, FFTResult                *)
(*   src/src/main.c              get_user_choice, main                     *)
(*                                                                         *)
(* Specifications.  Spec: one call of a convolution or of compute_fft,     *)
(* every allocation succeeding.  SpecAlloc: the same calls with one        *)
(* failing allocation.  SpecLoad: one call of load_signal_from_file.       *)
(* SpecWindow: window_signal and the loop of show_signal_spectrogram.      *)
(* SpecFFT: the transforms on drawn buffers.  SpecPow2: the loop of        *)
(* next_power_of_2, statement by statement, in 32-bit int.  SpecChoice:    *)
(* one call of get_user_choice on a finite input stream.  SpecMenu: main   *)
(* on a finite input stream.  The last three are fair: the process runs.   *)
(*                                                                         *)
(* Arithmetic.  A C `double` is modelled exactly, as a pair <<a, b>> that  *)
(* stands for the real number (a + b*sqrt(2)) / Scale.  Every value the    *)
(* transforms of size 1, 2, 4 and 8 produce from dyadic samples lies in    *)
(* this set, so the model computes what the code computes in exact         *)
(* arithmetic; rounding of the 64-bit format and the truncated PI of the   *)
(* header are not modelled.                                                *)
(*                                                                         *)
(* Arrays are functions over 0..len-1, so indices are the C indices.       *)
(***************************************************************************)
EXTENDS Integers, Sequences, FiniteSets, TLC

\* ------------------------------------------------------------------ bounds
\* Longest input signal drawn for the convolution operations.
MaxLen == 2
\* Largest exponent p of a transform buffer length 2^p drawn for the
\* transform round trip.
MaxLog == 2

\* Sample values of the drawn input signals (whole numbers).
Vals == {-1, 1, 2}
\* Sample rates of the drawn input signals (Hz, whole numbers).
Rates == {1, 2}

\* ------------------------------------------------------- double arithmetic
\* Number of units per 1.0 in the representation of a double.
Scale == 2 ^ 8

\* The double with the whole-number value v.
D(v) == <<v * Scale, 0>>
\* The double num/den for a den that divides num * Scale (0.5 is DFrac(1, 2)).
DFrac(num, den) == <<(num * Scale) \div den, 0>>
\* sqrt(2)/2, the only irrational magnitude among the twiddles up to n = 8.
HalfSqrt2 == <<0, Scale \div 2>>

DAdd(x, y) == <<x[1] + y[1], x[2] + y[2]>>
DSub(x, y) == <<x[1] - y[1], x[2] - y[2]>>
DNeg(x) == <<-x[1], -x[2]>>
\* (a + b r)(c + d r) = (ac + 2bd) + (ad + bc) r with r = sqrt(2).
DMul(x, y) ==
  <<(x[1] * y[1] + 2 * x[2] * y[2]) \div Scale,
    (x[1] * y[2] + x[2] * y[1]) \div Scale>>
\* x / n for an int n (the usual arithmetic conversion of n to double).
DDivInt(x, n) == <<x[1] \div n, x[2] \div n>>
\* i * x for an int i.
DMulInt(i, x) == <<i * x[1], i * x[2]>>

\* cos(angle) and sin(angle) for angle = -2.0 * PI * k / n with 0 <= k < n/2:
\* the angle is e eighths of a turn clockwise, e = 8k/n in 0..3.  The values
\* are exact for n in {2, 4, 8}; no e exists for a larger n and odd k.
Eighths(k, n) == CHOOSE e \in 0 .. 3 : e * n = 8 * k
cos_angle(k, n) ==
  LET e == Eighths(k, n) IN
  CASE e = 0 -> D(1)
    [] e = 1 -> HalfSqrt2
    [] e = 2 -> D(0)
    [] e = 3 -> DNeg(HalfSqrt2)
sin_angle(k, n) ==
  LET e == Eighths(k, n) IN
  CASE e = 0 -> D(0)
    [] e = 1 -> DNeg(HalfSqrt2)
    [] e = 2 -> D(-1)
    [] e = 3 -> DNeg(HalfSqrt2)

\* ------------------------------------------------------------------ arrays
\* The array f held in memory: the same function, as a table of its values
\* (a function expression is otherwise re-evaluated at every application).
Stored(f) == IF f = f THEN f ELSE f

\* ------------------------------------------------------------------ Signal
\* The null pointer.
NULL == [null |-> TRUE]

\* calloc(count, sizeof(double)): a count below 0 converts to a size_t too
\* large to allocate; a count of 0 yields NULL or an empty block, as the
\* C library chooses (zeroIsNull).
calloc_fails(count, zeroIsNull) == count < 0 \/ (count = 0 /\ zeroIsNull)

create_signal(length, sample_rate, zeroIsNull) ==
  IF calloc_fails(length, zeroIsNull) THEN NULL
  ELSE [null |-> FALSE,
        data |-> Stored([i \in 0 .. length - 1 |-> D(0)]),
        length |-> length,
        sample_rate |-> sample_rate,
        duration |-> DFrac(length, sample_rate),
        type |-> "SIGNAL_CUSTOM"]

\* ---------------------------------------------------------------- convolve
\* Variant: the sample rate of the second argument.
convolve_sample_rate_second(signal1, signal2) == signal2.sample_rate

\* The sample rate handed to create_signal by the three convolutions.
convolve_sample_rate(signal1, signal2) == signal1.sample_rate

\* Variant: one sample too many.
convolve_output_length_plus(signal1, signal2) ==
  signal1.length + signal2.length

convolve_output_length(signal1, signal2) ==
  signal1.length + signal2.length - 1

\* Variant: the loop starts one k late once the kernel is fully inside.
convolve_k_min_late(signal2, n) ==
  IF n >= signal2.length - 1 THEN n - signal2.length + 2 ELSE 0

\* Variant: the loop stops one k early (k < k_max).
convolve_k_max_early(signal1, n) ==
  (IF n < signal1.length THEN n ELSE signal1.length - 1) - 1

\* Variant: the loop always starts at k = 0 and leans on the guard.
convolve_k_min_zero(signal2, n) == 0

\* First and last k of the inner loop for output index n.
convolve_k_min(signal2, n) ==
  IF n >= signal2.length - 1 THEN n - signal2.length + 1 ELSE 0
convolve_k_max(signal1, n) ==
  IF n < signal1.length THEN n ELSE signal1.length - 1

\* Variant: h_index > 0 in place of h_index >= 0.
convolve_guard_strict(signal1, signal2, n, k) ==
  LET h_index == n - k IN
  h_index > 0 /\ h_index < signal2.length /\ k >= 0 /\ k < signal1.length

\* The guard of the inner loop body (&& evaluates left to right).
convolve_guard(signal1, signal2, n, k) ==
  LET h_index == n - k IN
  h_index >= 0 /\ h_index < signal2.length /\ k >= 0 /\ k < signal1.length

\* The inner loop from k on: acc is result->data[n] so far.
RECURSIVE convolve_inner(_, _, _, _, _)
convolve_inner(signal1, signal2, n, k, acc) ==
  IF k > convolve_k_max(signal1, n) THEN acc
  ELSE convolve_inner(signal1, signal2, n, k + 1,
         IF convolve_guard(signal1, signal2, n, k)
         THEN DAdd(acc, DMul(signal1.data[k], signal2.data[n - k]))
         ELSE acc)

convolve(signal1, signal2, zeroIsNull) ==
  IF signal1 = NULL \/ signal2 = NULL THEN NULL
  ELSE
    LET output_length == convolve_output_length(signal1, signal2)
        result == create_signal(output_length,
                                convolve_sample_rate(signal1, signal2),
                                zeroIsNull)
    IN IF result = NULL THEN NULL
       ELSE [result EXCEPT
               !.type = "SIGNAL_CUSTOM",
               !.data = Stored([n \in 0 .. output_length - 1 |->
                  convolve_inner(signal1, signal2, n,
                                 convolve_k_min(signal2, n), D(0))])]

\* ------------------------------------------------------- convolve_circular
\* Variant: the shorter length (< in place of >).
circular_length_min(signal1, signal2) ==
  IF signal1.length < signal2.length THEN signal1.length ELSE signal2.length

circular_length(signal1, signal2) ==
  IF signal1.length > signal2.length THEN signal1.length ELSE signal2.length

\* a % b of C for b > 0: the quotient truncates toward zero.
CMod(a, b) == IF a >= 0 THEN a % b ELSE -((-a) % b)

\* Variant: n + k in place of n - k (correlation, not convolution).
circular_h_index_plus(n, k, length) == CMod(n + k + length, length)

circular_h_index(n, k, length) == CMod(n - k + length, length)

\* Variant: the last sample of signal1 is taken for padding.
circular_x_val_short(signal1, k) ==
  IF k < signal1.length - 1 THEN signal1.data[k] ELSE D(0)

circular_x_val(signal1, k) ==
  IF k < signal1.length THEN signal1.data[k] ELSE D(0)

\* Variant: the last sample of signal2 is taken for padding.
circular_h_val_short(signal2, h_index) ==
  IF h_index < signal2.length - 1 THEN signal2.data[h_index] ELSE D(0)

circular_h_val(signal2, h_index) ==
  IF h_index < signal2.length THEN signal2.data[h_index] ELSE D(0)

\* The inner loop from k on: acc is result->data[n] so far.
RECURSIVE circular_inner(_, _, _, _, _, _)
circular_inner(signal1, signal2, length, n, k, acc) ==
  IF k >= length THEN acc
  ELSE circular_inner(signal1, signal2, length, n, k + 1,
         DAdd(acc, DMul(circular_x_val(signal1, k),
                        circular_h_val(signal2,
                                       circular_h_index(n, k, length)))))

convolve_circular(signal1, signal2, zeroIsNull) ==
  IF signal1 = NULL \/ signal2 = NULL THEN NULL
  ELSE
    LET length == circular_length(signal1, signal2)
        result == create_signal(length,
                                convolve_sample_rate(signal1, signal2),
                                zeroIsNull)
    IN IF result = NULL THEN NULL
       ELSE [result EXCEPT
               !.type = "SIGNAL_CUSTOM",
               !.data = Stored([n \in 0 .. length - 1 |->
                  circular_inner(signal1, signal2, length, n, 0, D(0))])]

\* --------------------------------------------------------- next_power_of_2
\* The while loop from the current value of power on.
RECURSIVE next_power_of_2_loop(_, _)
next_power_of_2_loop(power, n) ==
  IF power < n THEN next_power_of_2_loop(power * 2, n) ELSE power

next_power_of_2(n) == next_power_of_2_loop(1, n)

\* ----------------------------------------------------------------- Complex
Cx(re, im) == [real |-> re, imag |-> im]

\* Complex multiplication as both the combine step and the pointwise
\* product spell it out.
complex_mul(x, y) ==
  Cx(DSub(DMul(x.real, y.real), DMul(x.imag, y.imag)),
     DAdd(DMul(x.real, y.imag), DMul(x.imag, y.real)))

\* Variant: the angle +2.0 * PI * k / n.
twiddle_conjugate(k, n) == Cx(cos_angle(k, n), DNeg(sin_angle(k, n)))

twiddle(k, n) == Cx(cos_angle(k, n), sin_angle(k, n))

\* ----------------------------------------------------------- fft_recursive
\* The combine loop: even and odd are the transformed halves.  Entries of
\* data from 2*(n/2) on are not written.
fft_combine(data, even, odd, n) ==
  LET half == n \div 2
      temp(k) == complex_mul(twiddle(k, n), odd[k])
  IN Stored([j \in DOMAIN data |->
        IF j < half
        THEN Cx(DAdd(even[j].real, temp(j).real),
                DAdd(even[j].imag, temp(j).imag))
        ELSE IF j < 2 * half
        THEN Cx(DSub(even[j - half].real, temp(j - half).real),
                DSub(even[j - half].imag, temp(j - half).imag))
        ELSE data[j]])

RECURSIVE fft_recursive(_, _)
fft_recursive(data, n) ==
  IF n <= 1 THEN data
  ELSE
    LET half == n \div 2
        even == Stored([i \in 0 .. half - 1 |-> data[i * 2]])
        odd == Stored([i \in 0 .. half - 1 |-> data[i * 2 + 1]])
    IN fft_combine(data, fft_recursive(even, half),
                   fft_recursive(odd, half), n)

\* ---------------------------------------------------------- ifft_recursive
\* Variant: the input is not conjugated.
ifft_conjugate_skipped(data, n) == data

ifft_conjugate(data, n) ==
  Stored([i \in DOMAIN data |->
     IF i < n THEN Cx(data[i].real, DNeg(data[i].imag)) ELSE data[i]])

\* Variant: the output is conjugated but not scaled by 1/n.
ifft_scale_missing(data, n) ==
  Stored([i \in DOMAIN data |->
     IF i < n THEN Cx(data[i].real, DNeg(data[i].imag)) ELSE data[i]])

ifft_scale(data, n) ==
  Stored([i \in DOMAIN data |->
     IF i < n THEN Cx(DDivInt(data[i].real, n),
                      DDivInt(DNeg(data[i].imag), n))
     ELSE data[i]])

ifft_recursive(data, n) ==
  IF n <= 1 THEN data
  ELSE ifft_scale(fft_recursive(ifft_conjugate(data, n), n), n)

\* ------------------------------------------------------------ convolve_fft
fft_conv_length(signal1, signal2) == signal1.length + signal2.length - 1

\* A calloc'ed buffer of fft_size entries after the copy loop over signal,
\* as far as the loop stays inside the buffer.
fft_load(signal, fft_size) ==
  Stored([i \in 0 .. fft_size - 1 |->
     IF i < signal.length THEN Cx(signal.data[i], D(0))
     ELSE Cx(D(0), D(0))])

\* A copy loop runs past the end of its buffer (undefined behaviour).
fft_copy_overflows(signal1, signal2) ==
  LET fft_size == next_power_of_2(fft_conv_length(signal1, signal2))
  IN signal1.length > fft_size \/ signal2.length > fft_size

\* Pointwise multiplication in the frequency domain.
fft_pointwise(fft1, fft2) ==
  Stored([i \in DOMAIN fft1 |-> complex_mul(fft1[i], fft2[i])])

\* Variant: the transform size becomes the length of the result.
fft_result_length_padded(conv_length, fft_size) == fft_size

\* Length handed to create_signal for the result.
fft_result_length(conv_length, fft_size) == conv_length

convolve_fft(signal1, signal2, zeroIsNull) ==
  IF signal1 = NULL \/ signal2 = NULL THEN NULL
  ELSE
    LET conv_length == fft_conv_length(signal1, signal2)
        fft_size == next_power_of_2(conv_length)
        fft1 == fft_recursive(fft_load(signal1, fft_size), fft_size)
        fft2 == fft_recursive(fft_load(signal2, fft_size), fft_size)
        inv == ifft_recursive(fft_pointwise(fft1, fft2), fft_size)
        length == fft_result_length(conv_length, fft_size)
        result == create_signal(length,
                                convolve_sample_rate(signal1, signal2),
                                zeroIsNull)
    IN IF result = NULL THEN NULL
       ELSE [result EXCEPT
               !.type = "SIGNAL_CUSTOM",
               !.data = Stored([i \in 0 .. length - 1 |-> inv[i].real])]

\* ------------------------------------------------------------- compute_fft
compute_fft_size(signal) == next_power_of_2(signal.length)

\* Variant: i < fft_size/2 in place of i <= fft_size/2.
compute_fft_frequency_strict(i, fft_size, freq_resolution) ==
  IF i < fft_size \div 2 THEN DMulInt(i, freq_resolution)
  ELSE DMulInt(i - fft_size, freq_resolution)

\* The frequency of bin i.
compute_fft_frequency(i, fft_size, freq_resolution) ==
  IF i <= fft_size \div 2 THEN DMulInt(i, freq_resolution)
  ELSE DMulInt(i - fft_size, freq_resolution)

\* sqrt(re*re + im*im), kept as its radicand, and atan2(im, re), kept as
\* its two arguments: neither value is a number of the model in general.
compute_fft_magnitude(c) ==
  [sqrt_of |-> DAdd(DMul(c.real, c.real), DMul(c.imag, c.imag))]
compute_fft_phase(c) == [atan2_of |-> <<c.imag, c.real>>]

\* Variant: the magnitude array is sized by the signal, not the transform.
compute_fft_bins_unpadded(signal, fft_size) == 0 .. signal.length - 1

\* The indices of the magnitude, phase and frequency arrays.
compute_fft_bins(signal, fft_size) == 0 .. fft_size - 1

compute_fft(signal) ==
  IF signal = NULL THEN NULL
  ELSE
    LET fft_size == compute_fft_size(signal)
        bins_data == fft_recursive(fft_load(signal, fft_size), fft_size)
        freq_resolution == DDivInt(D(signal.sample_rate), fft_size)
        bins == compute_fft_bins(signal, fft_size)
    IN [null |-> FALSE,
        data |-> bins_data,
        magnitude |-> Stored([i \in bins |-> compute_fft_magnitude(bins_data[i])]),
        phase |-> Stored([i \in bins |-> compute_fft_phase(bins_data[i])]),
        frequency |-> Stored([i \in bins |->
           compute_fft_frequency(i, fft_size, freq_resolution)]),
        length |-> fft_size]

\* ------------------------------------------------- transform invocations
\* Variant: the halves are handed on with n - 1.
fft_sub_length_minus(n) == n - 1

\* The length handed to the two recursive invocations.
fft_sub_length(n) == n \div 2

\* -------------------------------------------------------------- allocation
\* The process as one call sees it: the live blocks, the next unused block
\* id, the number of malloc/calloc calls made so far, whether the process
\* has faulted, and the lengths the transforms were invoked with, in order.
\* Block 0 is the null pointer.
\*
\* One malloc or calloc call: it returns NULL when it is call number failAt
\* or when the request cannot be met (bad), a new live block otherwise.
Alloc(h, failAt, bad) ==
  LET c == h.calls + 1 IN
  IF c = failAt \/ bad
  THEN [h |-> [h EXCEPT !.calls = c], ptr |-> 0]
  ELSE [h |-> [h EXCEPT !.calls = c, !.live = @ \cup {h.next},
                        !.next = @ + 1],
        ptr |-> h.next]

\* Variant: the block is not released.
free_ignored(h, ptr) == h

\* free(ptr): nothing for NULL; freeing a block that is not live is a fault.
Free(h, ptr) ==
  IF ptr = 0 THEN h
  ELSE IF ptr \in h.live THEN [h EXCEPT !.live = @ \ {ptr}]
  ELSE [h EXCEPT !.fault = TRUE]

\* The allocations of create_signal: the Signal, then its samples.
create_signal_mem(h, length, failAt, zeroIsNull) ==
  LET a == Alloc(h, failAt, FALSE) IN
  IF a.ptr = 0 THEN [h |-> a.h, struct |-> 0, data |-> 0]
  ELSE LET b == Alloc(a.h, failAt, calloc_fails(length, zeroIsNull)) IN
       IF b.ptr = 0
       THEN [h |-> Free(b.h, a.ptr), struct |-> 0, data |-> 0]
       ELSE [h |-> b.h, struct |-> a.ptr, data |-> b.ptr]

convolve_mem(signal1, signal2, h, failAt, zeroIsNull) ==
  IF signal1 = NULL \/ signal2 = NULL
  THEN [h |-> h, struct |-> 0, data |-> 0]
  ELSE create_signal_mem(h, convolve_output_length(signal1, signal2),
                         failAt, zeroIsNull)

convolve_circular_mem(signal1, signal2, h, failAt, zeroIsNull) ==
  IF signal1 = NULL \/ signal2 = NULL
  THEN [h |-> h, struct |-> 0, data |-> 0]
  ELSE create_signal_mem(h, circular_length(signal1, signal2),
                         failAt, zeroIsNull)

\* The allocations of fft_recursive: even and odd are not tested, and the
\* divide loop stores through them at once (n/2 >= 1 here).
\* An invocation of fft_recursive with length n begins: one more frame on
\* the stack.
fft_enter(h, n) ==
  [h EXCEPT !.trace = Append(@, n), !.depth = @ + 1,
            !.deepest = IF h.depth + 1 > @ THEN h.depth + 1 ELSE @]
\* The invocation returns.
fft_leave(h) == [h EXCEPT !.depth = @ - 1]

RECURSIVE fft_recursive_mem(_, _, _)
fft_recursive_mem(n, h, failAt) ==
  IF h.fault THEN h
  ELSE
    LET h0 == fft_enter(h, n) IN
    IF n <= 1 THEN fft_leave(h0)
    ELSE
      LET even == Alloc(h0, failAt, FALSE)
          odd == Alloc(even.h, failAt, FALSE)
      IN IF even.ptr = 0 \/ odd.ptr = 0
         THEN [odd.h EXCEPT !.fault = TRUE]
         ELSE LET h1 == fft_recursive_mem(fft_sub_length(n), odd.h, failAt)
                  h2 == fft_recursive_mem(fft_sub_length(n), h1, failAt)
              IN IF h2.fault THEN h2
                 ELSE fft_leave(Free(Free(h2, even.ptr), odd.ptr))

ifft_recursive_mem(n, h, failAt) ==
  IF h.fault THEN h
  ELSE LET h0 == [h EXCEPT !.trace = Append(@, n)] IN
       IF n <= 1 THEN h0 ELSE fft_recursive_mem(n, h0, failAt)

convolve_fft_mem(signal1, signal2, h, failAt, zeroIsNull) ==
  IF signal1 = NULL \/ signal2 = NULL
  THEN [h |-> h, struct |-> 0, data |-> 0]
  ELSE
    LET conv_length == fft_conv_length(signal1, signal2)
        fft_size == next_power_of_2(conv_length)
        fft1 == Alloc(h, failAt, FALSE)
        fft2 == Alloc(fft1.h, failAt, FALSE)
    IN IF fft1.ptr = 0 \/ fft2.ptr = 0
       THEN [h |-> Free(Free(fft2.h, fft1.ptr), fft2.ptr),
             struct |-> 0, data |-> 0]
       ELSE
         LET h1 == fft_recursive_mem(fft_size, fft2.h, failAt)
             h2 == fft_recursive_mem(fft_size, h1, failAt)
             h3 == ifft_recursive_mem(fft_size, h2, failAt)
         IN IF h3.fault THEN [h |-> h3, struct |-> 0, data |-> 0]
            ELSE
              LET r == create_signal_mem(h3,
                         fft_result_length(conv_length, fft_size),
                         failAt, zeroIsNull)
              IN [r EXCEPT !.h = Free(Free(r.h, fft1.ptr), fft2.ptr)]

\* The allocations of compute_fft: the FFTResult, its four arrays (all
\* requested before any is tested), then the transform of result->data.
compute_fft_mem(signal, h, failAt) ==
  IF signal = NULL THEN [h |-> h, struct |-> 0, data |-> 0, owned |-> {}]
  ELSE
    LET r == Alloc(h, failAt, FALSE) IN
    IF r.ptr = 0 THEN [h |-> r.h, struct |-> 0, data |-> 0, owned |-> {}]
    ELSE
      LET d == Alloc(r.h, failAt, FALSE)
          m == Alloc(d.h, failAt, FALSE)
          p == Alloc(m.h, failAt, FALSE)
          f == Alloc(p.h, failAt, FALSE)
      IN IF d.ptr = 0 \/ m.ptr = 0 \/ p.ptr = 0 \/ f.ptr = 0
         THEN [h |-> Free(Free(Free(Free(Free(f.h, d.ptr), m.ptr), p.ptr),
                               f.ptr), r.ptr),
               struct |-> 0, data |-> 0, owned |-> {}]
         ELSE
           LET h1 == fft_recursive_mem(compute_fft_size(signal), f.h, failAt)
           IN IF h1.fault
              THEN [h |-> h1, struct |-> 0, data |-> 0, owned |-> {}]
              ELSE [h |-> h1, struct |-> r.ptr, data |-> d.ptr,
                    owned |-> {r.ptr, d.ptr, m.ptr, p.ptr, f.ptr}]

\* free_fft_result: the arrays that are set, then the FFTResult.
RECURSIVE free_fft_result_mem(_, _)
free_fft_result_mem(h, owned) ==
  IF owned = {} THEN h
  ELSE LET ptr == CHOOSE b \in owned : TRUE
       IN free_fft_result_mem(Free(h, ptr), owned \ {ptr})

\* ------------------------------------------------------------------- state
VARIABLES
  signal1,   \* first argument of the convolution call (a Signal or NULL)
  signal2,   \* second argument of the convolution call
  op,        \* the operation that was called, "none" before the call
  result,    \* what the call returned
  fault,     \* the call had undefined behaviour (a write past a buffer or
             \* through a null pointer)
  fft_result,\* what compute_fft returned
  passed,    \* the two arguments as they were when the call was made
  failAt,    \* the number of the malloc/calloc call that fails, 0 for none
  heap,      \* the live blocks, allocation count and transform lengths
  blocks,    \* the sample storage of signal1, signal2, the returned object
             \* and the window, and all blocks of the returned FFTResult
  file,      \* the file load_signal_from_file reads
  window_size,     \* second argument of show_signal_spectrogram
  num_windows,     \* its local num_windows
  w,               \* its loop counter
  windowed_signal, \* its local Signal, NULL outside the loop body
  data,      \* the Complex buffer handed to the transforms
  n,         \* its length
  x0,        \* the buffer as it was drawn
  calls,     \* the transforms applied to data so far, in order
  pc,        \* the statement the stepwise code is at, "none" elsewhere
  power,     \* the local power of next_power_of_2
  stdin,     \* the characters of standard input not read yet
  c,         \* what the last getchar returned
  choice,    \* the local choice of get_user_choice
  min,       \* first argument of get_user_choice
  max,       \* second argument of get_user_choice
  caller,    \* where get_user_choice returns to
  prompts,   \* the prompts get_user_choice has printed in this call
  rejects,   \* the "Invalid choice" messages it has printed in this call
  returned,  \* what the calls of get_user_choice made by main returned
  demos,     \* the demo functions main has run, in order
  init_calls,    \* the calls of init_visualization
  cleanup_calls, \* the calls of cleanup_visualization
  exit_status    \* the value main returned, NoStatus while it runs

vars ==
  <<signal1, signal2, op, result, fault, fft_result, passed, failAt, heap,
    blocks, file, window_size, num_windows, w, windowed_signal,
    data, n, x0, calls, pc, power, stdin, c, choice, min, max, caller,
    prompts, rejects, returned, demos, init_calls, cleanup_calls,
    exit_status>>
sigVars ==
  <<signal1, signal2, op, result, fault, fft_result, passed, failAt, heap,
    blocks>>
fftVars == <<data, n, x0, calls>>
ioVars == <<file, window_size, num_windows, w, windowed_signal>>
menuVars ==
  <<stdin, c, choice, min, max, caller, prompts, rejects, returned, demos,
    init_calls, cleanup_calls, exit_status>>
uiVars == <<pc, power, menuVars>>

\* ----------------------------------------------------------------- inputs
\* The arrays of len doubles with values in Vals.
Samples(len) == [0 .. len - 1 -> {D(v) : v \in Vals}]

\* A signal as a caller builds it: create_signal, then the samples stored
\* into data (memcpy or a generator loop).
with_data(signal, samples) == [signal EXCEPT !.data = samples]

DrawnSignals ==
  {with_data(create_signal(len, rate, FALSE), samples) :
     <<len, rate, samples>> \in
       UNION {{<<l, r, d>> : r \in Rates, d \in Samples(l)} : l \in 0 .. MaxLen}}

\* The C array holding the entries of seq, indexed from 0.
Arr(seq) == Stored([i \in 0 .. Len(seq) - 1 |-> seq[i + 1]])

\* x and h of the tutorial (main.c) and of the circular test (signal_demo.c).
TutorialX ==
  with_data(create_signal(5, 1, FALSE), Arr(<<D(1), D(2), D(1), D(0), D(0)>>))
TutorialH ==
  with_data(create_signal(3, 1, FALSE),
            Arr(<<D(1), DFrac(1, 2), DFrac(1, 4)>>))
DemoX ==
  with_data(create_signal(4, 1, FALSE), Arr(<<D(1), D(2), D(3), D(4)>>))
DemoH == TutorialH
\* A second signal of the length of x.
DemoY ==
  with_data(create_signal(4, 1, FALSE), Arr(<<D(2), D(-1), D(0), D(1)>>))

\* The argument pairs a call is made with.
InputPairs ==
  ((DrawnSignals \cup {NULL}) \X (DrawnSignals \cup {NULL}))
    \cup {<<TutorialX, TutorialH>>, <<DemoX, DemoH>>, <<DemoX, DemoY>>,
          <<DemoX, DemoX>>}

\* The caller's heap before the call: each argument is a Signal block and a
\* sample block; same says that one Signal was passed for both arguments.
InputBlocks(s1, s2, same) ==
  [signal1 |-> IF s1 = NULL THEN 0 ELSE 2,
   signal2 |-> IF s2 = NULL THEN 0 ELSE IF same THEN 2 ELSE 4,
   result |-> 0, window |-> 0, owned |-> {}]
InputHeap(s1, s2, same) ==
  [live |-> (IF s1 = NULL THEN {} ELSE {1, 2})
              \cup (IF s2 = NULL \/ same THEN {} ELSE {3, 4}),
   next |-> 5, calls |-> 0, fault |-> FALSE, trace |-> << >>,
   depth |-> 0, deepest |-> 0]

\* Components of the drawn transform buffers.
CVals == {Cx(D(0), D(0)), Cx(D(1), D(-1)), Cx(D(-1), D(2))}
Pow2(p) == 2 ^ p
Buffers(len) == [0 .. len - 1 -> CVals]

NoBuffer == Arr(<< >>)

\* A file is its lines and whether fopen succeeds.
FileOf(opens, lines) == [opens |-> opens, lines |-> lines]

\* ------------------------------------------------- the convolution calls
\* The arguments of a call about to be made, a pair of pairs, in a process
\* whose allocation number failAt (one of fails) returns NULL.
ArgSetup(pairs, fails) ==
  /\ \E pair \in pairs : \E same \in BOOLEAN :
       /\ same => (pair[1] = pair[2] /\ pair[1] # NULL)
       /\ signal1 = pair[1] /\ signal2 = pair[2]
       /\ passed = pair
       /\ blocks = InputBlocks(pair[1], pair[2], same)
       /\ heap = InputHeap(pair[1], pair[2], same)
  /\ failAt \in fails
  /\ op = "none"
  /\ result = NULL
  /\ fft_result = NULL
  /\ fault = FALSE
  /\ data = NoBuffer /\ n = 0 /\ x0 = NoBuffer /\ calls = << >>

\* No file is read and no spectrogram is shown.
\* No character read: what c holds before the first getchar.
NoChar == "none"
\* main has not returned.
NoStatus == -1

\* The menu is not running.
NoMenu ==
  /\ stdin = << >> /\ c = NoChar /\ choice = 0 /\ min = 0 /\ max = 0
  /\ caller = "none" /\ prompts = 0 /\ rejects = 0
  /\ returned = << >> /\ demos = << >>
  /\ init_calls = 0 /\ cleanup_calls = 0 /\ exit_status = NoStatus

\* No stepwise code is running.
NoUi == pc = "none" /\ power = 0 /\ NoMenu

NoIo ==
  /\ file = FileOf(FALSE, << >>)
  /\ window_size = 0 /\ num_windows = 0 /\ w = 0
  /\ windowed_signal = NULL
  /\ NoUi

CallSetup(pairs, fails) == ArgSetup(pairs, fails) /\ NoIo

Init == CallSetup(InputPairs, {0})

\* What the call leaves: the object m it returns (none when m.data = 0),
\* with value v.
Returns(m, v) ==
  /\ heap' = m.h
  /\ fault' = m.h.fault
  /\ result' = IF m.data = 0 THEN NULL ELSE v
  /\ blocks' = [blocks EXCEPT !.result = m.data]

CallConvolve ==
  /\ op = "none"
  /\ op' = "convolve"
  /\ \E zeroIsNull \in BOOLEAN :
       Returns(convolve_mem(signal1, signal2, heap, failAt, zeroIsNull),
               convolve(signal1, signal2, zeroIsNull))
  /\ UNCHANGED <<signal1, signal2, fft_result, passed, failAt, fftVars, ioVars, uiVars>>

CallConvolveCircular ==
  /\ op = "none"
  /\ op' = "convolve_circular"
  /\ \E zeroIsNull \in BOOLEAN :
       Returns(convolve_circular_mem(signal1, signal2, heap, failAt,
                                     zeroIsNull),
               convolve_circular(signal1, signal2, zeroIsNull))
  /\ UNCHANGED <<signal1, signal2, fft_result, passed, failAt, fftVars, ioVars, uiVars>>

\* The signals a store of 0.0 (the imaginary part the copy loop writes) can
\* leave in place of signal when it lands in signal's sample block.
stray_write(signal) ==
  {signal} \cup
    {[signal EXCEPT !.data = Stored([signal.data EXCEPT ![i] = D(0)])] :
       i \in DOMAIN signal.data}

\* A copy loop that leaves its buffer is undefined behaviour: the store may
\* land in a block of the caller, and the call may return anything it could
\* have returned, or fault.
CallConvolveFft ==
  /\ op = "none"
  /\ op' = "convolve_fft"
  /\ \E zeroIsNull \in BOOLEAN :
       LET m == convolve_fft_mem(signal1, signal2, heap, failAt, zeroIsNull)
           v == convolve_fft(signal1, signal2, zeroIsNull)
       IN IF signal1 # NULL /\ signal2 # NULL
             /\ fft_copy_overflows(signal1, signal2)
             /\ failAt \notin {1, 2}
          THEN /\ heap' = [m.h EXCEPT !.fault = TRUE]
               /\ fault' = TRUE
               /\ result' \in {NULL} \cup (IF m.data = 0 THEN {} ELSE {v})
               /\ blocks' = [blocks EXCEPT
                               !.result = IF result' = NULL THEN 0
                                          ELSE m.data]
               /\ signal1' \in stray_write(signal1)
               /\ signal2' \in stray_write(signal2)
          ELSE /\ Returns(m, v)
               /\ UNCHANGED <<signal1, signal2>>
  /\ UNCHANGED <<fft_result, passed, failAt, fftVars, ioVars, uiVars>>

\* compute_fft(signal1).
CallComputeFft ==
  /\ op = "none"
  /\ op' = "compute_fft"
  /\ LET m == compute_fft_mem(signal1, heap, failAt)
     IN /\ heap' = m.h
        /\ fault' = m.h.fault
        /\ fft_result' = IF m.data = 0 THEN NULL ELSE compute_fft(signal1)
        /\ blocks' = [blocks EXCEPT !.result = m.data, !.owned = m.owned]
  /\ UNCHANGED <<signal1, signal2, result, passed, failAt, fftVars, ioVars, uiVars>>

Next ==
  CallConvolve \/ CallConvolveCircular \/ CallConvolveFft \/ CallComputeFft

Spec == Init /\ [][Next]_vars

\* -------------------------------------------- the calls when memory runs out
MaxFailAt == 10

\* One signal of each length, with samples 1, 2, ...
AllocSignals ==
  {with_data(create_signal(len, 1, FALSE),
             Stored([i \in 0 .. len - 1 |-> D(i + 1)])) : len \in 0 .. MaxLen}
AllocPairs ==
  ((AllocSignals \cup {NULL}) \X (AllocSignals \cup {NULL}))
    \cup {<<TutorialX, TutorialH>>}

InitAlloc == CallSetup(AllocPairs, 1 .. MaxFailAt)

SpecAlloc == InitAlloc /\ [][Next]_vars

\* --------------------------------------------------- load_signal_from_file
MaxLines == 3

DefaultSampleRate == 44100

\* The lines of a CSV file by what the two passes make of them: the
\* "# Sample Rate: r Hz" comment, another comment, a line starting with T
\* (the "Time,Amplitude" header), a "time,amplitude" line that sscanf
\* parses, and a line that is none of these (a blank line, text).
Lines ==
  {[kind |-> "rate", value |-> r] : r \in Rates}
    \cup {[kind |-> "data", value |-> v] : v \in Vals}
    \cup {[kind |-> k, value |-> 0] : k \in {"comment", "header", "junk"}}

\* line[0] == '#' and line[0] == 'T'.
starts_with_hash(line) == line.kind \in {"rate", "comment"}
starts_with_T(line) == line.kind = "header"
\* sscanf(line, "%lf,%lf", ...) == 2.
parses_as_data(line) == line.kind = "data"

\* First pass from line i on.
RECURSIVE load_first_pass(_, _, _, _)
load_first_pass(lines, i, sample_rate, estimated_length) ==
  IF i > Len(lines)
  THEN [sample_rate |-> sample_rate, estimated_length |-> estimated_length]
  ELSE IF starts_with_hash(lines[i])
  THEN load_first_pass(lines, i + 1,
         IF lines[i].kind = "rate" THEN lines[i].value ELSE sample_rate,
         estimated_length)
  ELSE IF ~starts_with_T(lines[i])
  THEN load_first_pass(lines, i + 1, sample_rate, estimated_length + 1)
  ELSE load_first_pass(lines, i + 1, sample_rate, estimated_length)

\* Second pass from line i on: samples is signal->data so far.
RECURSIVE load_second_pass(_, _, _, _, _)
load_second_pass(lines, i, samples, data_index, estimated_length) ==
  IF i > Len(lines) \/ data_index >= estimated_length
  THEN [data |-> samples, data_index |-> data_index]
  ELSE IF ~starts_with_hash(lines[i]) /\ ~starts_with_T(lines[i])
          /\ parses_as_data(lines[i])
  THEN load_second_pass(lines, i + 1,
         Stored([samples EXCEPT ![data_index] = D(lines[i].value)]),
         data_index + 1, estimated_length)
  ELSE load_second_pass(lines, i + 1, samples, data_index, estimated_length)

load_signal_from_file(filename) ==
  IF ~filename.opens THEN NULL
  ELSE
    LET lines == filename.lines
        first == load_first_pass(lines, 1, DefaultSampleRate, 0) IN
    IF first.estimated_length = 0 THEN NULL
    ELSE
      LET signal == create_signal(first.estimated_length, first.sample_rate,
                                  FALSE)
          second == load_second_pass(lines, 1, signal.data, 0,
                                     first.estimated_length)
      IN [signal EXCEPT !.data = second.data,
                        !.length = second.data_index]

load_signal_from_file_mem(filename, h, failing) ==
  IF ~filename.opens THEN [h |-> h, struct |-> 0, data |-> 0]
  ELSE
    LET lines == filename.lines
        first == load_first_pass(lines, 1, DefaultSampleRate, 0) IN
    IF first.estimated_length = 0 THEN [h |-> h, struct |-> 0, data |-> 0]
    ELSE create_signal_mem(h, first.estimated_length, failing, FALSE)

\* The files read: up to MaxLines lines, one of them the sample-rate
\* comment that save_signal_to_file writes, or a file that does not open.
Files ==
  {FileOf(FALSE, << >>)} \cup
    {FileOf(TRUE, f) :
       f \in {g \in UNION {[1 .. k -> Lines] : k \in 0 .. MaxLines} :
                \E i \in 1 .. Len(g) : g[i].kind = "rate"}}

InitLoad ==
  /\ ArgSetup({<<NULL, NULL>>}, {0})
  /\ file \in Files
  /\ window_size = 0 /\ num_windows = 0 /\ w = 0
  /\ windowed_signal = NULL
  /\ NoUi

CallLoad ==
  /\ op = "none"
  /\ op' = "load_signal_from_file"
  /\ Returns(load_signal_from_file_mem(file, heap, failAt),
             load_signal_from_file(file))
  /\ UNCHANGED <<signal1, signal2, fft_result, passed, failAt, fftVars,
                 ioVars, uiVars>>

NextLoad == CallLoad

SpecLoad == InitLoad /\ [][NextLoad]_vars

\* ------------------------------------------------------------ window_signal
\* The window types of the model: the ones that take the default branch
\* (window_val = 1.0).
WindowTypes == {"rectangular"}

window_val(i, length, window_type) == D(1)

window_signal(signal, window_type, zeroIsNull) ==
  IF signal = NULL THEN NULL
  ELSE
    LET windowed == create_signal(signal.length, signal.sample_rate,
                                  zeroIsNull)
    IN IF windowed = NULL THEN NULL
       ELSE [windowed EXCEPT
               !.type = signal.type,
               !.data = Stored([i \in 0 .. signal.length - 1 |->
                  DMul(signal.data[i],
                       window_val(i, signal.length, window_type))])]

window_signal_mem(signal, h, failing, zeroIsNull) ==
  IF signal = NULL THEN [h |-> h, struct |-> 0, data |-> 0]
  ELSE create_signal_mem(h, signal.length, failing, zeroIsNull)

CallWindowSignal ==
  /\ op = "none"
  /\ op' = "window_signal"
  /\ \E zeroIsNull \in BOOLEAN : \E window_type \in WindowTypes :
       Returns(window_signal_mem(signal1, heap, failAt, zeroIsNull),
               window_signal(signal1, window_type, zeroIsNull))
  /\ UNCHANGED <<signal1, signal2, fft_result, passed, failAt, fftVars,
                 ioVars, uiVars>>

\* -------------------------------------------------- show_signal_spectrogram
MaxWindow == 3

MaxWindowsShown == 10

\* a / b of C for b > 0: the quotient truncates toward zero.
CDiv(a, b) == IF a >= 0 THEN a \div b ELSE -((-a) \div b)

spectrogram_start_idx(window, size) == window * (size \div 2)

\* The loop condition and the break test in front of the body.
spectrogram_continues ==
  /\ w < num_windows /\ w < MaxWindowsShown
  /\ spectrogram_start_idx(w, window_size) + window_size <= signal1.length

\* The local Signal of the loop body: its data points into signal's samples.
spectrogram_window(signal, start_idx, size) ==
  [null |-> FALSE,
   data |-> Stored([i \in 0 .. size - 1 |-> signal.data[start_idx + i]]),
   length |-> size,
   sample_rate |-> signal.sample_rate,
   duration |-> DFrac(size, signal.sample_rate),
   type |-> signal.type]

InitWindow ==
  /\ ArgSetup((DrawnSignals \cup {NULL, TutorialX, DemoX}) \X {NULL}, {0})
  /\ window_size \in 0 .. MaxWindow
  /\ file = FileOf(FALSE, << >>)
  /\ num_windows = 0 /\ w = 0
  /\ windowed_signal = NULL
  /\ NoUi

\* Entry of show_signal_spectrogram(signal1, window_size) up to the loop.
\* With window_size = 1 the divisor window_size / 2 is 0: the division
\* traps, or yields 0 where the hardware does not trap.
ShowSpectrogram ==
  /\ op = "none"
  /\ IF signal1 = NULL \/ window_size <= 0
     THEN /\ op' = "show_signal_spectrogram returned"
          /\ UNCHANGED <<num_windows, fault>>
     ELSE IF window_size \div 2 = 0
     THEN /\ fault' = TRUE
          /\ \E trapped \in BOOLEAN :
               IF trapped
               THEN op' = "show_signal_spectrogram returned"
                    /\ UNCHANGED num_windows
               ELSE op' = "show_signal_spectrogram" /\ num_windows' = 1
     ELSE /\ num_windows' =
               CDiv(signal1.length - window_size, window_size \div 2) + 1
          /\ op' = IF num_windows' < 1
                   THEN "show_signal_spectrogram returned"
                   ELSE "show_signal_spectrogram"
          /\ fault' = fault
  /\ UNCHANGED <<signal1, signal2, result, fft_result, passed, failAt, heap,
                 blocks, file, window_size, w, windowed_signal, fftVars, uiVars>>

\* The loop body up to the call of compute_fft.
SpectrogramWindow ==
  /\ op = "show_signal_spectrogram"
  /\ windowed_signal = NULL
  /\ spectrogram_continues
  /\ LET start_idx == spectrogram_start_idx(w, window_size)
         window == spectrogram_window(signal1, start_idx, window_size)
         m == compute_fft_mem(window, heap, failAt)
     IN /\ windowed_signal' = window
        /\ heap' = m.h
        /\ fault' = (fault \/ m.h.fault)
        /\ fft_result' = IF m.data = 0 THEN NULL ELSE compute_fft(window)
        /\ blocks' = [blocks EXCEPT !.window = blocks.signal1,
                                    !.owned = m.owned]
  /\ UNCHANGED <<signal1, signal2, op, result, passed, failAt, file,
                 window_size, num_windows, w, fftVars, uiVars>>

\* The rest of the loop body: free_fft_result, the end of the block and w++.
SpectrogramWindowEnd ==
  /\ op = "show_signal_spectrogram"
  /\ windowed_signal # NULL
  /\ heap' = free_fft_result_mem(heap, blocks.owned)
  /\ fft_result' = NULL
  /\ windowed_signal' = NULL
  /\ blocks' = [blocks EXCEPT !.window = 0, !.owned = {}]
  /\ w' = w + 1
  /\ UNCHANGED <<signal1, signal2, op, result, fault, passed, failAt, file,
                 window_size, num_windows, fftVars, uiVars>>

\* The loop is left and the function returns.
SpectrogramReturn ==
  /\ op = "show_signal_spectrogram"
  /\ windowed_signal = NULL
  /\ ~spectrogram_continues
  /\ op' = "show_signal_spectrogram returned"
  /\ UNCHANGED <<signal1, signal2, result, fault, fft_result, passed, failAt,
                 heap, blocks, ioVars, fftVars, uiVars>>

NextWindow ==
  \/ CallWindowSignal
  \/ ShowSpectrogram
  \/ SpectrogramWindow
  \/ SpectrogramWindowEnd
  \/ SpectrogramReturn

SpecWindow == InitWindow /\ [][NextWindow]_vars

\* ---------------------------------------------------- the transform calls
MaxCalls == 2

\* The block of the buffer: the caller allocated it (fft1 of convolve_fft,
\* result->data of compute_fft).
BufferBlock == 1

\* A buffer of a power-of-two size and a call on its first n entries, n a
\* power of two as well.
InitFFT ==
  /\ signal1 = NULL /\ signal2 = NULL /\ op = "none" /\ result = NULL
  /\ fault = FALSE
  /\ fft_result = NULL
  /\ passed = <<NULL, NULL>>
  /\ failAt = 0
  /\ blocks = InputBlocks(NULL, NULL, FALSE)
  /\ heap = [InputHeap(NULL, NULL, FALSE) EXCEPT !.live = {BufferBlock}]
  /\ NoIo
  /\ \E p \in 0 .. MaxLog : \E q \in 0 .. p : \E buf \in Buffers(Pow2(p)) :
       data = buf /\ n = Pow2(q) /\ x0 = buf
  /\ calls = << >>

CallFft ==
  /\ Len(calls) < MaxCalls
  /\ data' = fft_recursive(data, n)
  /\ heap' = fft_recursive_mem(n, heap, failAt)
  /\ calls' = Append(calls, "fft_recursive")
  /\ UNCHANGED <<n, x0, signal1, signal2, op, result, fault, fft_result,
                 passed, failAt, blocks, ioVars, uiVars>>

CallIfft ==
  /\ Len(calls) < MaxCalls
  /\ data' = ifft_recursive(data, n)
  /\ heap' = ifft_recursive_mem(n, heap, failAt)
  /\ calls' = Append(calls, "ifft_recursive")
  /\ UNCHANGED <<n, x0, signal1, signal2, op, result, fault, fft_result,
                 passed, failAt, blocks, ioVars, uiVars>>

NextFFT == CallFft \/ CallIfft

SpecFFT == InitFFT /\ [][NextFFT]_vars

\* ------------------------------------------ next_power_of_2, step by step
\* The limits of int.
IntMax == 2147483647
IntMin == -2147483647 - 1
TwoTo30 == 1073741824

\* power * 2 is not representable in int: the multiplication is undefined.
mul2_overflows(x) == x >= TwoTo30 \/ x < -TwoTo30

\* The low 32 bits of x * 2 as an int, for an x whose double overflows.
mul2_wrapped(x) ==
  IF x >= TwoTo30 THEN (x - TwoTo30) * 2 + IntMin
  ELSE ((x + TwoTo30) * 2 + IntMax) + 1

\* The arguments drawn: small ones, and those around 2^30 and INT_MAX.
Pow2Args == {-3, 0, 1, 2, 3, 5, TwoTo30 - 1, TwoTo30, TwoTo30 + 1, IntMax}

\* What a build may make of the undefined multiplication: the wrapped
\* product (the imul/shl of the target) or a trap (-ftrapv, a sanitizer).
OverflowOutcomes == {"wrap", "trap"}

InitPow2 ==
  /\ signal1 = NULL /\ signal2 = NULL /\ op = "none" /\ result = NULL
  /\ fault = FALSE
  /\ fft_result = NULL
  /\ passed = <<NULL, NULL>>
  /\ failAt = 0
  /\ blocks = InputBlocks(NULL, NULL, FALSE)
  /\ heap = InputHeap(NULL, NULL, FALSE)
  /\ file = FileOf(FALSE, << >>)
  /\ window_size = 0 /\ num_windows = 0 /\ w = 0
  /\ windowed_signal = NULL
  /\ NoMenu
  /\ data = NoBuffer /\ x0 = NoBuffer /\ calls = << >>
  /\ n \in Pow2Args
  /\ power = 1
  /\ pc = "while"

\* while (power < n)
Pow2While ==
  /\ pc = "while"
  /\ pc' = IF power < n THEN "body" ELSE "return"
  /\ UNCHANGED <<power, sigVars, fftVars, ioVars, menuVars>>

\* power *= 2;
Pow2Body ==
  /\ pc = "body"
  /\ IF mul2_overflows(power)
     THEN /\ fault' = TRUE
          /\ \E outcome \in OverflowOutcomes :
               IF outcome = "wrap"
               THEN power' = mul2_wrapped(power) /\ pc' = "while"
               ELSE pc' = "abort" /\ UNCHANGED power
     ELSE /\ power' = power * 2
          /\ pc' = "while"
          /\ UNCHANGED fault
  /\ UNCHANGED <<signal1, signal2, op, result, fft_result, passed, failAt,
                 heap, blocks, fftVars, ioVars, menuVars>>

\* return power;
Pow2Return ==
  /\ pc = "return"
  /\ pc' = "returned"
  /\ UNCHANGED <<power, sigVars, fftVars, ioVars, menuVars>>

NextPow2 == Pow2While \/ Pow2Body \/ Pow2Return

\* The loop runs on: no step of it waits for anything.
SpecPow2 == InitPow2 /\ [][NextPow2]_vars /\ WF_vars(NextPow2)

\* ------------------------------------------------------- get_user_choice
MaxInput == 4

\* The characters of the drawn input streams.
InputChars == {"0", "5", "7", "\n", "x"}
\* What getchar returns at end-of-input.
EOF == "EOF"

\* The input streams: every stream of at most MaxInput characters, and the
\* one of the Makefile's test target, 7 \ n 0 and a newline (the here-string
\* is in double quotes, where the shell keeps the backslash).
MakeTestInput == <<"7", "\\", "n", "0", "\n">>
Streams ==
  UNION {[1 .. len -> InputChars] : len \in 0 .. MaxInput}
    \cup {MakeTestInput}

is_space(ch) == ch = "\n"
is_digit(ch) == ch \in {"0", "5", "7"}
digit_value(ch) == CASE ch = "0" -> 0 [] ch = "5" -> 5 [] ch = "7" -> 7

\* The stream after its leading white space.
RECURSIVE skip_space(_)
skip_space(stream) ==
  IF stream # << >> /\ is_space(Head(stream))
  THEN skip_space(Tail(stream)) ELSE stream

\* The decimal digits at the front of stream, read into the value acc.
RECURSIVE read_digits(_, _)
read_digits(stream, acc) ==
  IF stream # << >> /\ is_digit(Head(stream))
  THEN read_digits(Tail(stream), acc * 10 + digit_value(Head(stream)))
  ELSE [value |-> acc, rest |-> stream]

\* scanf("%d", &choice): white space is skipped; at end-of-input the call
\* returns EOF (-1); a digit starts a number, which is stored; any other
\* character stays in the stream and nothing is stored.
scanf_d(stream, old) ==
  LET s == skip_space(stream) IN
  IF s = << >> THEN [items |-> -1, value |-> old, rest |-> s]
  ELSE IF is_digit(Head(s))
  THEN LET r == read_digits(s, 0)
       IN [items |-> 1, value |-> r.value, rest |-> r.rest]
  ELSE [items |-> 0, value |-> old, rest |-> s]

\* The condition of the if.
choice_accepted(items, value, lo, hi) ==
  items = 1 /\ value >= lo /\ value <= hi

\* The pairs (min, max) get_user_choice is called with: those of main and
\* demo_custom_signals, and a single-value range.
ChoiceRanges == {<<0, 7>>, <<1, 7>>, <<5, 5>>}

\* Everything but the menu.
NoCalls ==
  /\ signal1 = NULL /\ signal2 = NULL /\ op = "none" /\ result = NULL
  /\ fault = FALSE
  /\ fft_result = NULL
  /\ passed = <<NULL, NULL>>
  /\ failAt = 0
  /\ blocks = InputBlocks(NULL, NULL, FALSE)
  /\ heap = InputHeap(NULL, NULL, FALSE)
  /\ file = FileOf(FALSE, << >>)
  /\ window_size = 0 /\ num_windows = 0 /\ w = 0
  /\ windowed_signal = NULL
  /\ data = NoBuffer /\ n = 0 /\ x0 = NoBuffer /\ calls = << >>
  /\ power = 0

\* A call get_user_choice(min, max) on its own.
InitChoice ==
  /\ NoCalls
  /\ stdin \in Streams
  /\ \E range \in ChoiceRanges : min = range[1] /\ max = range[2]
  /\ c = NoChar /\ choice = 0
  /\ caller = "none" /\ prompts = 0 /\ rejects = 0
  /\ returned = << >> /\ demos = << >>
  /\ init_calls = 0 /\ cleanup_calls = 0 /\ exit_status = NoStatus
  /\ pc = "prompt"

notMenu == <<sigVars, fftVars, ioVars, power>>

\* printf("Enter your choice (%d-%d): ", min, max);
Prompt ==
  /\ pc = "prompt"
  /\ prompts' = prompts + 1
  /\ pc' = "scanf"
  /\ UNCHANGED <<stdin, c, choice, min, max, caller, rejects, returned,
                 demos, init_calls, cleanup_calls, exit_status, notMenu>>

\* The statement after the call, by caller.
return_to(from) ==
  CASE from = "none" -> "returned"
    [] from = "main" -> "switch"
    [] from = "type1" -> "type2"
    [] from = "type2" -> "pause"

\* The if: scanf and the range test; return choice, or the message.
Scanf ==
  /\ pc = "scanf"
  /\ LET r == scanf_d(stdin, choice) IN
     /\ stdin' = r.rest
     /\ choice' = r.value
     /\ IF choice_accepted(r.items, r.value, min, max)
        THEN /\ pc' = return_to(caller)
             /\ returned' = IF caller = "main" THEN Append(returned, r.value)
                            ELSE returned
             /\ UNCHANGED rejects
        ELSE /\ rejects' = rejects + 1
             /\ pc' = "getchar"
             /\ UNCHANGED returned
  /\ UNCHANGED <<c, min, max, caller, prompts, demos, init_calls,
                 cleanup_calls, exit_status, notMenu>>

\* getchar(): the next character, EOF at end-of-input.
getchar(stream) ==
  IF stream = << >> THEN [ch |-> EOF, rest |-> stream]
  ELSE [ch |-> Head(stream), rest |-> Tail(stream)]

\* The call of getchar in while (getchar() != '\n');
Getchar ==
  /\ pc = "getchar"
  /\ c' = getchar(stdin).ch
  /\ stdin' = getchar(stdin).rest
  /\ pc' = "flush"
  /\ UNCHANGED <<choice, min, max, caller, prompts, rejects, returned, demos,
                 init_calls, cleanup_calls, exit_status, notMenu>>

\* Its comparison with '\n': once more, or back to the prompt.
FlushWhile ==
  /\ pc = "flush"
  /\ pc' = IF c # "\n" THEN "getchar" ELSE "prompt"
  /\ UNCHANGED <<menuVars, notMenu>>

NextChoice == Prompt \/ Scanf \/ Getchar \/ FlushWhile

\* The process runs: with input from a file or a pipe no call waits.
SpecChoice == InitChoice /\ [][NextChoice]_vars /\ WF_vars(NextChoice)

\* -------------------------------------------------------------------- main
\* The function the switch of main calls for choice k in 1 .. 7.
DemoOf(k) ==
  CASE k = 1 -> "demo_basic_convolution"
    [] k = 2 -> "demo_signal_filtering"
    [] k = 3 -> "demo_frequency_analysis"
    [] k = 4 -> "demo_system_impulse_response"
    [] k = 5 -> "demo_custom_signals"
    [] k = 6 -> "demo_performance_comparison"
    [] k = 7 -> "run_interactive_demo"

\* The choice of main: what its last call of get_user_choice returned (the
\* calls made by demo_custom_signals have a choice of their own).
main_choice == returned[Len(returned)]

InitMenu ==
  /\ NoCalls
  /\ stdin \in Streams
  /\ c = NoChar /\ choice = 0 /\ min = 0 /\ max = 0
  /\ caller = "none" /\ prompts = 0 /\ rejects = 0
  /\ returned = << >> /\ demos = << >>
  /\ init_calls = 0 /\ cleanup_calls = 0 /\ exit_status = NoStatus
  /\ pc = "main"

\* The call get_user_choice(lo, hi) from the place named from.
call_get_user_choice(lo, hi, from) ==
  /\ min' = lo /\ max' = hi
  /\ caller' = from
  /\ prompts' = 0 /\ rejects' = 0
  /\ pc' = "prompt"

\* The banner and init_visualization(800, 600).
MainStart ==
  /\ pc = "main"
  /\ init_calls' = init_calls + 1
  /\ pc' = "menu"
  /\ UNCHANGED <<stdin, c, choice, min, max, caller, prompts, rejects,
                 returned, demos, cleanup_calls, exit_status, notMenu>>

\* show_main_menu(); choice = get_user_choice(0, 7);
Menu ==
  /\ pc = "menu"
  /\ call_get_user_choice(0, 7, "main")
  /\ UNCHANGED <<stdin, c, choice, returned, demos, init_calls,
                 cleanup_calls, exit_status, notMenu>>

\* The switch: the demo of the choice.  Only demo_custom_signals reads
\* input (its first get_user_choice(1, 7)); on 0 the loop is left.
Switch ==
  /\ pc = "switch"
  /\ IF main_choice = 0
     THEN /\ pc' = "cleanup"
          /\ UNCHANGED <<demos, min, max, caller, prompts, rejects>>
     ELSE /\ demos' = Append(demos, DemoOf(main_choice))
          /\ IF main_choice = 5
             THEN call_get_user_choice(1, 7, "type1")
             ELSE /\ pc' = "pause"
                  /\ UNCHANGED <<min, max, caller, prompts, rejects>>
  /\ UNCHANGED <<stdin, c, choice, returned, init_calls, cleanup_calls,
                 exit_status, notMenu>>

\* int type2 = get_user_choice(1, 7); the rest of demo_custom_signals
\* follows its return.
Type2 ==
  /\ pc = "type2"
  /\ call_get_user_choice(1, 7, "type2")
  /\ UNCHANGED <<stdin, c, choice, returned, demos, init_calls,
                 cleanup_calls, exit_status, notMenu>>

\* getchar(); // consume newline
Pause ==
  /\ pc = "pause"
  /\ c' = getchar(stdin).ch
  /\ stdin' = getchar(stdin).rest
  /\ pc' = "enter"
  /\ UNCHANGED <<choice, min, max, caller, prompts, rejects, returned, demos,
                 init_calls, cleanup_calls, exit_status, notMenu>>

\* getchar(); // wait for enter, and the loop condition (choice != 0).
Enter ==
  /\ pc = "enter"
  /\ c' = getchar(stdin).ch
  /\ stdin' = getchar(stdin).rest
  /\ pc' = "menu"
  /\ UNCHANGED <<choice, min, max, caller, prompts, rejects, returned, demos,
                 init_calls, cleanup_calls, exit_status, notMenu>>

\* cleanup_visualization(); return 0;
Cleanup ==
  /\ pc = "cleanup"
  /\ cleanup_calls' = cleanup_calls + 1
  /\ exit_status' = 0
  /\ pc' = "exited"
  /\ UNCHANGED <<stdin, c, choice, min, max, caller, prompts, rejects,
                 returned, demos, init_calls, notMenu>>

NextMenu ==
  \/ MainStart
  \/ Menu
  \/ Prompt
  \/ Scanf
  \/ Getchar
  \/ FlushWhile
  \/ Switch
  \/ Type2
  \/ Pause
  \/ Enter
  \/ Cleanup

SpecMenu == InitMenu /\ [][NextMenu]_vars /\ WF_vars(NextMenu)

\* ------------------------------------------------------------------ claims
\* The three convolution operations.
ConvolutionOps == {"convolve", "convolve_circular", "convolve_fft"}

\* A non-null signal with at least one sample.
Valid(signal) == signal # NULL /\ signal.length >= 1
\* A null signal or one with no samples.
NullOrEmpty(signal) == signal = NULL \/ signal.length <= 0

\* The sum of the values of the function f, in no particular order.
RECURSIVE DSum(_)
DSum(f) ==
  IF DOMAIN f = {} THEN D(0)
  ELSE LET k == CHOOSE j \in DOMAIN f : TRUE
       IN DAdd(f[k], DSum([j \in DOMAIN f \ {k} |-> f[j]]))

\* Textbook linear convolution of the arrays a (N entries) and b (M entries)
\* at index i: both are zero outside their bounds.
RefLinear(a, N, b, M, i) ==
  DSum([k \in {j \in 0 .. N - 1 : 0 <= i - j /\ i - j < M} |->
          DMul(a[k], b[i - k])])

\* The array a of len entries, zero-padded to L entries.
ZeroPad(a, len, L) == [i \in 0 .. L - 1 |-> IF i < len THEN a[i] ELSE D(0)]

\* Textbook circular convolution of the L-entry arrays a and b at index i.
RefCircular(a, b, L, i) ==
  DSum([k \in 0 .. L - 1 |-> DMul(a[k], b[(i - k + L) % L])])

\* C1: for non-null signals a (N >= 1 samples) and b (M >= 1 samples),
\* convolve(a, b) returns a signal whose sample at every index n in
\* 0 .. N+M-2 is the sum of a[k]*b[n-k] over exactly the k with 0 <= k < N
\* and 0 <= n-k < M; a one-sample signal convolved with itself gives the
\* square of its sample.
C1_ConvolveIsLinearConvolution ==
  (op = "convolve" /\ Valid(signal1) /\ Valid(signal2)) =>
    /\ result # NULL
    /\ DOMAIN result.data = 0 .. signal1.length + signal2.length - 2
    /\ \A i \in 0 .. signal1.length + signal2.length - 2 :
         result.data[i] =
           RefLinear(signal1.data, signal1.length,
                     signal2.data, signal2.length, i)
    /\ (signal1.length = 1 /\ signal2.data = signal1.data) =>
         result.data = Arr(<<DMul(signal1.data[0], signal1.data[0])>>)

\* convolve(x, h) of the circular test, x = [1,2,3,4], h = [1,0.5,0.25].
C1_Witness ==
  /\ op = "convolve" /\ signal1 = DemoX /\ signal2 = DemoH
  /\ result # NULL
  /\ result.data = Arr(<<D(1), DFrac(5, 2), DFrac(17, 4), D(6),
                         DFrac(11, 4), D(1)>>)

\* C2: for non-null signals with N, M >= 1 samples, convolve_fft(a, b) has
\* the length of convolve(a, b) and the same sample at every index (in
\* exact arithmetic): the result is the linear convolution, not a circular
\* one.
C2_FftEqualsDirect ==
  (op = "convolve_fft" /\ Valid(signal1) /\ Valid(signal2)) =>
    /\ result # NULL
    /\ result.length = convolve(signal1, signal2, FALSE).length
    /\ result.data = convolve(signal1, signal2, FALSE).data

\* convolve_fft of the tutorial pair: 7 samples out of a transform of 8,
\* with nothing wrapped around into the first samples.
C2_Witness ==
  /\ op = "convolve_fft" /\ signal1 = TutorialX /\ signal2 = TutorialH
  /\ result # NULL
  /\ result.data = Arr(<<D(1), DFrac(5, 2), DFrac(9, 4), D(1),
                         DFrac(1, 4), D(0), D(0)>>)

\* C3: for non-null signals a (N >= 1) and b (M >= 1) with L = max(N, M),
\* convolve_circular(a, b)[n] is, for every n in 0 .. L-1, the sum over k
\* in 0 .. L-1 of a'[k]*b'[(n-k+L) mod L], a' and b' being a and b
\* zero-padded to L samples.
C3_CircularFormula ==
  (op = "convolve_circular" /\ Valid(signal1) /\ Valid(signal2)) =>
    LET L == IF signal1.length >= signal2.length
             THEN signal1.length ELSE signal2.length
        a == ZeroPad(signal1.data, signal1.length, L)
        b == ZeroPad(signal2.data, signal2.length, L)
    IN /\ result # NULL
       /\ DOMAIN result.data = 0 .. L - 1
       /\ \A i \in 0 .. L - 1 : result.data[i] = RefCircular(a, b, L, i)

\* The example of the claim: a = [1,2,1,0,0], b = [1,0.5,0.25] give 5
\* samples and y[0] = a[0]b[0]+a[1]b[4]+a[2]b[3]+a[3]b[2]+a[4]b[1] with
\* b[3] = b[4] = 0.
C3_Witness ==
  /\ op = "convolve_circular" /\ signal1 = TutorialX /\ signal2 = TutorialH
  /\ result # NULL
  /\ result.length = 5
  /\ LET a == signal1.data
         b == ZeroPad(signal2.data, 3, 5)
     IN /\ b[3] = D(0) /\ b[4] = D(0)
        /\ result.data[0] =
             DAdd(DAdd(DAdd(DAdd(DMul(a[0], b[0]), DMul(a[1], b[4])),
                            DMul(a[2], b[3])), DMul(a[3], b[2])),
                  DMul(a[4], b[1]))
  /\ result.data = Arr(<<D(1), DFrac(5, 2), DFrac(9, 4), D(1), DFrac(1, 4)>>)

\* C4: each of convolve, convolve_circular and convolve_fft returns NULL
\* whenever either input is null or has length <= 0, and returns a result
\* for every pair of non-null signals with positive lengths.
C4_NullOrEmptyRejected ==
  (op \in ConvolutionOps) =>
    /\ (NullOrEmpty(signal1) \/ NullOrEmpty(signal2)) => result = NULL
    /\ (Valid(signal1) /\ Valid(signal2)) => result # NULL

\* C5: for non-null signals of N >= 1 and M >= 1 samples the signal
\* returned by convolve has length exactly N+M-1 (and holds that many
\* samples).
C5_LinearLength ==
  (op = "convolve" /\ Valid(signal1) /\ Valid(signal2)) =>
    /\ result # NULL
    /\ result.length = signal1.length + signal2.length - 1
    /\ Cardinality(DOMAIN result.data) = signal1.length + signal2.length - 1

C5_Witness ==
  /\ op = "convolve" /\ result # NULL
  /\ signal1.length = 5 /\ signal2.length = 3 /\ result.length = 7

\* C6: for non-null signals of N >= 1 and M >= 1 samples the signal
\* returned by convolve_circular has length exactly max(N, M).
C6_CircularLength ==
  (op = "convolve_circular" /\ Valid(signal1) /\ Valid(signal2)) =>
    /\ result # NULL
    /\ result.length >= signal1.length
    /\ result.length >= signal2.length
    /\ result.length \in {signal1.length, signal2.length}
    /\ Cardinality(DOMAIN result.data) = result.length

C6_Witness ==
  /\ op = "convolve_circular" /\ result # NULL
  /\ signal1.length = 1 /\ signal2.length = 2 /\ result.length = 2

\* C7: for non-null signals of N >= 1 and M >= 1 samples the signal
\* returned by convolve_fft has length exactly N+M-1; the power-of-two
\* transform size is not the output length.
C7_FftLength ==
  (op = "convolve_fft" /\ Valid(signal1) /\ Valid(signal2)) =>
    /\ result # NULL
    /\ result.length = signal1.length + signal2.length - 1
    /\ Cardinality(DOMAIN result.data) = signal1.length + signal2.length - 1

\* 4 and 3 samples: the transform has 8 entries, the result 6.
C7_Witness ==
  /\ op = "convolve_fft" /\ result # NULL
  /\ signal1.length = 4 /\ signal2.length = 3
  /\ next_power_of_2(fft_conv_length(signal1, signal2)) = 8
  /\ result.length = 6

\* C8: for non-null signals a and b with at least one sample each,
\* convolve(a, b) and convolve(b, a) have the same length and the same
\* sample at every index.
C8_LinearCommutes ==
  (op = "convolve" /\ Valid(signal1) /\ Valid(signal2)) =>
    LET swapped == convolve(signal2, signal1, FALSE)
    IN /\ result # NULL /\ swapped # NULL
       /\ result.length = swapped.length
       /\ result.data = swapped.data

\* Operands of different lengths and different samples.
C8_Witness ==
  /\ op = "convolve" /\ result # NULL
  /\ Valid(signal1) /\ Valid(signal2)
  /\ signal1.length = 2 /\ signal2.length = 1
  /\ signal1.data[0] # signal1.data[1]
  /\ signal2.data[0] = D(2)
  /\ result.data = convolve(signal2, signal1, FALSE).data

\* The unit impulse: one sample of value 1.0.
IsUnitImpulse(signal) ==
  signal # NULL /\ signal.length = 1 /\ signal.data = Arr(<<D(1)>>)

\* C9: for a signal a of N >= 1 samples and the unit impulse u = [1.0],
\* convolving a with u, by convolve, convolve_circular or convolve_fft and
\* with u as either operand, returns a signal of N samples equal to those
\* of a.
C9_UnitImpulseIsIdentity ==
  /\ (op \in ConvolutionOps /\ Valid(signal1) /\ IsUnitImpulse(signal2)) =>
       /\ result # NULL
       /\ result.length = signal1.length
       /\ result.data = signal1.data
  /\ (op \in ConvolutionOps /\ IsUnitImpulse(signal1) /\ Valid(signal2)) =>
       /\ result # NULL
       /\ result.length = signal2.length
       /\ result.data = signal2.data

C9_Witness ==
  /\ op = "convolve_fft" /\ result # NULL
  /\ Valid(signal1) /\ signal1.length = 2
  /\ signal1.data = Arr(<<D(2), D(-1)>>)
  /\ IsUnitImpulse(signal2)
  /\ result.data = signal1.data

\* C10: for a complex buffer x whose length n is a power of two, applying
\* fft_recursive and then ifft_recursive to the buffer restores every
\* component of x (in exact arithmetic).
C10_TransformRoundTrip ==
  (calls = <<"fft_recursive", "ifft_recursive">>) => data = x0

\* A buffer of 4 entries that is not symmetric under index reversal.
C10_Witness ==
  /\ calls = <<"fft_recursive", "ifft_recursive">>
  /\ n = 4
  /\ x0[1] # x0[3]
  /\ data = x0

\* k is a power of two (1 included).
IsPowerOfTwo(k) == k >= 1 /\ \E p \in 0 .. k : 2 ^ p = k

\* C12: for every non-null signal of length n >= 1, compute_fft returns a
\* result whose length F is the smallest power of two with F >= n, and
\* whose data, magnitude, phase and frequency arrays each hold exactly F
\* entries.
C12_SpectrumLength ==
  (op = "compute_fft" /\ Valid(signal1)) =>
    /\ fft_result # NULL
    /\ LET F == fft_result.length IN
       /\ IsPowerOfTwo(F)
       /\ F >= signal1.length
       /\ \A G \in 1 .. F - 1 : IsPowerOfTwo(G) => G < signal1.length
       /\ DOMAIN fft_result.data = 0 .. F - 1
       /\ DOMAIN fft_result.magnitude = 0 .. F - 1
       /\ DOMAIN fft_result.phase = 0 .. F - 1
       /\ DOMAIN fft_result.frequency = 0 .. F - 1

\* compute_fft of the 5-sample tutorial signal: 8 bins, 3 of them padding.
C12_Witness ==
  /\ op = "compute_fft" /\ signal1 = TutorialX
  /\ fft_result # NULL
  /\ fft_result.length = 8
  /\ Cardinality(DOMAIN fft_result.magnitude) = 8

\* C13: compute_fft returns no result (NULL) when its input signal is null
\* or has length 0.
C13_NullOrEmptyHasNoSpectrum ==
  (op = "compute_fft" /\ NullOrEmpty(signal1)) => fft_result = NULL

\* C14: for a = [1,2,1,0,0] and b = [1,0.5,0.25], convolve(a, b) has
\* length 7 and samples [1, 2.5, 2.25, 1.0, 0.25, 0, 0].
C14_TutorialScenario ==
  (op = "convolve"
   /\ signal1 # NULL /\ signal2 # NULL
   /\ signal1.data = Arr(<<D(1), D(2), D(1), D(0), D(0)>>)
   /\ signal2.data = Arr(<<D(1), DFrac(1, 2), DFrac(1, 4)>>)) =>
    /\ result # NULL
    /\ result.length = 7
    /\ DOMAIN result.data = 0 .. 6
    /\ result.data[0] = D(1)
    /\ result.data[1] = DFrac(5, 2)
    /\ result.data[2] = DFrac(9, 4)
    /\ result.data[3] = D(1)
    /\ result.data[4] = DFrac(1, 4)
    /\ result.data[5] = D(0)
    /\ result.data[6] = D(0)

\* convolve of the tutorial pair has returned its 7 samples.
C14_Witness ==
  /\ op = "convolve" /\ signal1 = TutorialX /\ signal2 = TutorialH
  /\ result # NULL
  /\ result.length = 7
  /\ result.data[1] = DFrac(5, 2)

\* The lengths of all transform invocations the call made.
TraceLengths == {heap.trace[i] : i \in 1 .. Len(heap.trace)}

\* C15: in every execution of convolve_fft and compute_fft on non-null
\* signals, every invocation of fft_recursive and ifft_recursive, the
\* recursive ones included, is made with a length that is a power of two
\* (n >= 1).
C15_TransformLengthsArePowersOfTwo ==
  /\ (op = "convolve_fft" /\ signal1 # NULL /\ signal2 # NULL) =>
       \A len \in TraceLengths : IsPowerOfTwo(len)
  /\ (op = "compute_fft" /\ signal1 # NULL) =>
       \A len \in TraceLengths : IsPowerOfTwo(len)

\* convolve_fft of the tutorial pair: two forward transforms of 8 (15
\* invocations each), the inverse transform and the forward one it runs.
C15_Witness ==
  /\ op = "convolve_fft" /\ signal1 = TutorialX /\ signal2 = TutorialH
  /\ Len(heap.trace) = 46
  /\ TraceLengths = {1, 2, 4, 8}

\* C19: for a result of length F computed from a signal with
\* sample_rate > 0, frequency[i] = i*(sample_rate/F) for 0 <= i <= F/2 and
\* frequency[i] = (i-F)*(sample_rate/F) for F/2 < i < F; bin 0 is 0 Hz,
\* the bins up to the Nyquist index are non-negative and all bins past it
\* are strictly negative.
C19_FrequencyBins ==
  (op = "compute_fft" /\ fft_result # NULL /\ signal1.sample_rate > 0) =>
    LET F == fft_result.length
        freq == fft_result.frequency
    IN /\ \A i \in 0 .. F - 1 :
            /\ (i <= F \div 2) =>
                 /\ DMulInt(F, freq[i]) = D(i * signal1.sample_rate)
                 /\ freq[i][1] >= 0 /\ freq[i][2] = 0
            /\ (i > F \div 2) =>
                 /\ DMulInt(F, freq[i]) = D((i - F) * signal1.sample_rate)
                 /\ freq[i][1] < 0 /\ freq[i][2] = 0
       /\ freq[0] = D(0)

\* The 8 bins of the tutorial signal at 1 Hz: the Nyquist bin is +1/2 Hz
\* and the bin after it -3/8 Hz.
C19_Witness ==
  /\ op = "compute_fft" /\ signal1 = TutorialX
  /\ fft_result # NULL
  /\ fft_result.frequency[4] = DFrac(1, 2)
  /\ fft_result.frequency[5] = DFrac(-3, 8)
  /\ fft_result.frequency[7] = DFrac(-1, 8)

\* The samples of signal as a Complex buffer.
AsComplex(signal) ==
  Stored([i \in 0 .. signal.length - 1 |-> Cx(signal.data[i], D(0))])

\* C20: for signals a and b of the same power-of-two length L,
\* convolve_circular(a, b)[n] equals, for every n in 0 .. L-1, the real part
\* of sample n of ifft_recursive applied to the element-wise product of
\* fft_recursive(a) and fft_recursive(b), all at size L.
C20_CircularIsSpectralProduct ==
  (op = "convolve_circular" /\ Valid(signal1) /\ Valid(signal2)
   /\ signal1.length = signal2.length /\ IsPowerOfTwo(signal1.length)) =>
    LET L == signal1.length
        A == fft_recursive(AsComplex(signal1), L)
        B == fft_recursive(AsComplex(signal2), L)
        product == Stored([i \in 0 .. L - 1 |-> complex_mul(A[i], B[i])])
        back == ifft_recursive(product, L)
    IN /\ result # NULL
       /\ \A i \in 0 .. L - 1 : result.data[i] = back[i].real

\* Two different 4-sample signals: [1,2,3,4] and [2,-1,0,1] wrap to
\* [0,6,8,6].
C20_Witness ==
  /\ op = "convolve_circular" /\ signal1 = DemoX /\ signal2 = DemoY
  /\ result # NULL
  /\ result.data = Arr(<<D(0), D(6), D(8), D(6)>>)

\* The blocks that were live when the call was made.
LiveBefore ==
  InputHeap(passed[1], passed[2],
            blocks.signal1 # 0 /\ blocks.signal1 = blocks.signal2).live

\* C11: convolve, convolve_circular, convolve_fft and compute_fft leave
\* every field and every sample of their input signals unchanged, and the
\* sample storage of the returned object is newly allocated and distinct
\* from the storage of both inputs, also when one signal is passed as both
\* arguments.
C11_InputsUnchangedResultFresh ==
  (op \in ConvolutionOps \cup {"compute_fft"}) =>
    /\ signal1 = passed[1]
    /\ signal2 = passed[2]
    /\ (blocks.result # 0) =>
         /\ blocks.result \notin LiveBefore
         /\ blocks.result \in heap.live
         /\ blocks.result # blocks.signal1
         /\ blocks.result # blocks.signal2

\* C16: if any memory allocation fails inside convolve, convolve_circular,
\* convolve_fft or compute_fft (the temporary allocations of fft_recursive
\* included), the operation returns no result, does not fault the process,
\* leaves no allocated buffer unreleased and no input modified.
C16_AllocationFailureIsSurfaced ==
  (op \in ConvolutionOps \cup {"compute_fft"}
   /\ failAt \in 1 .. heap.calls) =>
    /\ result = NULL
    /\ fft_result = NULL
    /\ ~fault
    /\ heap.live = LiveBefore
    /\ signal1 = passed[1]
    /\ signal2 = passed[2]

\* A signal whose length is the number of samples in its storage and whose
\* duration is its length over its sample rate.
Consistent(signal) ==
  /\ DOMAIN signal.data = 0 .. signal.length - 1
  /\ signal.duration = DFrac(signal.length, signal.sample_rate)

\* C17: every Signal returned by create_signal, by a generator, by
\* convolve, convolve_circular or convolve_fft, by window_signal or by
\* load_signal_from_file has length equal to the number of samples held in
\* its storage and duration equal to length / sample_rate.
C17_LengthAndDurationAgree ==
  /\ (signal1 # NULL) => Consistent(signal1)
  /\ (signal2 # NULL) => Consistent(signal2)
  /\ (result # NULL) => Consistent(result)

\* Sample storage: len samples from index first of a block.
Extent(block, first, len) == [block |-> block, first |-> first, len |-> len]
Overlap(x, y) ==
  /\ x.block # 0 /\ x.block = y.block
  /\ x.first < y.first + y.len
  /\ y.first < x.first + x.len

\* The Signal instances that exist, each with its sample storage.
LiveSignals ==
  (IF signal1 = NULL THEN {}
   ELSE {<<"signal1",
           Extent(blocks.signal1, 0, Cardinality(DOMAIN signal1.data))>>})
  \cup (IF signal2 = NULL \/ blocks.signal2 = blocks.signal1 THEN {}
        ELSE {<<"signal2",
                Extent(blocks.signal2, 0,
                       Cardinality(DOMAIN signal2.data))>>})
  \cup (IF result = NULL THEN {}
        ELSE {<<"result",
                Extent(blocks.result, 0, Cardinality(DOMAIN result.data))>>})
  \cup (IF windowed_signal = NULL THEN {}
        ELSE {<<"windowed_signal",
                Extent(blocks.window,
                       spectrogram_start_idx(w, window_size),
                       windowed_signal.length)>>})

\* C18: at every point of any execution no two live Signal instances have
\* sample storage that overlaps, the ones built for windowing and for
\* per-window spectral analysis included.
C18_StorageIsExclusive ==
  \A x \in LiveSignals : \A y \in LiveSignals :
    (x[1] # y[1]) => ~Overlap(x[2], y[2])

\* The larger and the smaller of two ints.
Max(a, b) == IF a >= b THEN a ELSE b
Min(a, b) == IF a <= b THEN a ELSE b

\* The multiply-adds of convolve(signal1, signal2): the pairs <<i, k>> of an
\* output index i and an inner-loop k whose guard let the product through.
ConvolveTerms ==
  {<<i, k>> \in (0 .. signal1.length + signal2.length - 2)
                  \X (0 .. signal1.length - 1) :
     /\ convolve_k_min(signal2, i) <= k
     /\ k <= convolve_k_max(signal1, i)
     /\ convolve_guard(signal1, signal2, i, k)}

\* C22: in convolve with N, M >= 1, for every output index n in 0 .. N+M-2
\* the inner-loop range k_min .. k_max is non-empty and is exactly
\* max(0, n-M+1) .. min(n, N-1), every k in it has 0 <= k < N and
\* 0 <= n-k < M (the guard is never false), and each pair (k, j) with
\* 0 <= k < N, 0 <= j < M is accumulated exactly once, into output index
\* k+j: N*M multiply-adds in total.
C22_InnerLoopRange ==
  (op = "convolve" /\ Valid(signal1) /\ Valid(signal2)) =>
    LET N == signal1.length
        M == signal2.length
    IN /\ \A i \in 0 .. N + M - 2 :
            LET k_min == convolve_k_min(signal2, i)
                k_max == convolve_k_max(signal1, i)
            IN /\ k_min <= k_max
               /\ k_min = Max(0, i - M + 1)
               /\ k_max = Min(i, N - 1)
               /\ \A k \in k_min .. k_max :
                    /\ 0 <= k /\ k < N
                    /\ 0 <= i - k /\ i - k < M
                    /\ convolve_guard(signal1, signal2, i, k)
       /\ \A k \in 0 .. N - 1 : \A j \in 0 .. M - 1 :
            {t \in ConvolveTerms : t[2] = k /\ t[1] - t[2] = j}
              = {<<k + j, k>>}
       /\ Cardinality(ConvolveTerms) = N * M

\* convolve of the 4- and 3-sample signals of the demo: 12 multiply-adds.
C22_Witness ==
  /\ op = "convolve" /\ signal1 = DemoX /\ signal2 = DemoH
  /\ result # NULL
  /\ Cardinality(ConvolveTerms) = 12
  /\ convolve_k_min(signal2, 5) = 3 /\ convolve_k_max(signal1, 5) = 3

\* C24: the signal returned by convolve, convolve_circular and convolve_fft
\* carries the sample rate of the first argument whatever the sample rate
\* of the second (mismatched rates are accepted, not rejected), and its
\* duration is its length divided by the first argument's sample rate.
C24_RateOfFirstArgument ==
  /\ (op \in ConvolutionOps /\ result # NULL) =>
       /\ result.sample_rate = passed[1].sample_rate
       /\ result.duration = DFrac(result.length, passed[1].sample_rate)
  /\ (op \in ConvolutionOps /\ Valid(passed[1]) /\ Valid(passed[2])
      /\ passed[1].sample_rate # passed[2].sample_rate) =>
       result # NULL

\* convolve_fft of two 2-sample signals at 2 Hz and 1 Hz: 3 samples at
\* 2 Hz, 1.5 s.
C24_Witness ==
  /\ op = "convolve_fft"
  /\ Valid(signal1) /\ Valid(signal2)
  /\ signal1.sample_rate = 2 /\ signal2.sample_rate = 1
  /\ signal1.length = 2 /\ signal2.length = 2
  /\ result # NULL
  /\ result.sample_rate = 2
  /\ result.duration = DFrac(3, 2)

\* C25: for every pair of non-null signals the public API can produce (a
\* signal of length 0 included), convolve_fft reads and writes its two
\* temporary buffers only at indices below fft_size: fft_size >= N and
\* fft_size >= M hold whenever the copy loops run.
C25_CopyLoopsStayInBuffers ==
  (op = "convolve_fft" /\ passed[1] # NULL /\ passed[2] # NULL) =>
    LET fft_size ==
          next_power_of_2(fft_conv_length(passed[1], passed[2]))
    IN /\ fft_size >= passed[1].length
       /\ fft_size >= passed[2].length
       /\ ~fault

\* C28: for all non-null signals a and b with N, M >= 1 samples (equal or
\* different), convolve_circular(a, b) and convolve_circular(b, a) have the
\* same length max(N, M) and equal samples at every index.
C28_CircularCommutes ==
  (op = "convolve_circular" /\ Valid(signal1) /\ Valid(signal2)) =>
    LET swapped == convolve_circular(signal2, signal1, FALSE)
    IN /\ result # NULL /\ swapped # NULL
       /\ result.length = Max(signal1.length, signal2.length)
       /\ swapped.length = result.length
       /\ swapped.data = result.data

\* Operands of different lengths (4 and 3 samples) with a wrapped first
\* sample: 1 + 0.75 + 2.
C28_Witness ==
  /\ op = "convolve_circular" /\ signal1 = DemoX /\ signal2 = DemoH
  /\ result # NULL
  /\ result.length = 4
  /\ result.data[0] = DFrac(15, 4)
  /\ convolve_circular(signal2, signal1, FALSE).data[0] = DFrac(15, 4)

\* C29: for all non-null signals a and b with N, M >= 1 samples and
\* L = max(N, M), convolve_circular(a, b)[n] is, for every n in 0 .. L-1,
\* the sum of convolve(a, b)[m] over all m in 0 .. N+M-2 with m mod L = n,
\* and the circular index (n-k+L) mod L always lies in 0 .. L-1.
C29_CircularIsWrappedLinear ==
  (op = "convolve_circular" /\ Valid(signal1) /\ Valid(signal2)) =>
    LET N == signal1.length
        M == signal2.length
        L == Max(N, M)
        linear == convolve(signal1, signal2, FALSE).data
    IN /\ result # NULL
       /\ \A i \in 0 .. L - 1 :
            result.data[i] =
              DSum([m \in {j \in 0 .. N + M - 2 : j % L = i} |-> linear[m]])
       /\ \A i \in 0 .. L - 1 : \A k \in 0 .. L - 1 :
            circular_h_index(i, k, L) \in 0 .. L - 1

\* The 6 linear samples [1, 2.5, 4.25, 6, 2.75, 1] of the demo pair folded
\* onto 4: sample 1 is 2.5 + 1.
C29_Witness ==
  /\ op = "convolve_circular" /\ signal1 = DemoX /\ signal2 = DemoH
  /\ result # NULL
  /\ convolve(signal1, signal2, FALSE).data[5] = D(1)
  /\ result.data[1] = DFrac(7, 2)

\* e^(-2*pi*i*e/8), e eighths of a turn clockwise, for e in 0 .. 7.
RootOfUnity(e) ==
  CASE e = 0 -> Cx(D(1), D(0))
    [] e = 1 -> Cx(HalfSqrt2, DNeg(HalfSqrt2))
    [] e = 2 -> Cx(D(0), D(-1))
    [] e = 3 -> Cx(DNeg(HalfSqrt2), DNeg(HalfSqrt2))
    [] e = 4 -> Cx(D(-1), D(0))
    [] e = 5 -> Cx(DNeg(HalfSqrt2), HalfSqrt2)
    [] e = 6 -> Cx(D(0), D(1))
    [] e = 7 -> Cx(HalfSqrt2, HalfSqrt2)

\* e^(-2*pi*i*m/len) for len in {1, 2, 4, 8} and any m >= 0.
W(m, len) == RootOfUnity(((m % len) * 8) \div len)

\* Sample k of the discrete Fourier transform of the first len entries of x.
RefDFT(x, len, k) ==
  LET term(j) == complex_mul(x[j], W(j * k, len))
  IN Cx(DSum([j \in 0 .. len - 1 |-> term(j).real]),
        DSum([j \in 0 .. len - 1 |-> term(j).imag]))

\* C23: fft_recursive leaves a buffer of length <= 1 unchanged; otherwise,
\* with even' and odd' the transforms of the even- and odd-indexed halves,
\* data[k] = even'[k] + W_k*odd'[k] and data[k+n/2] = even'[k] - W_k*odd'[k]
\* for 0 <= k < n/2 with W_k = e^(-2*pi*i*k/n), so that
\* data[k] = sum over j of x[j]*e^(-2*pi*i*j*k/n), x being the input.
C23_TransformIsDFT ==
  (calls = <<"fft_recursive">>) =>
    /\ (n <= 1) => data = x0
    /\ (n > 1) =>
         LET half == n \div 2
             even == fft_recursive(Stored([i \in 0 .. half - 1 |-> x0[2 * i]]),
                                   half)
             odd == fft_recursive(
                      Stored([i \in 0 .. half - 1 |-> x0[2 * i + 1]]), half)
             t(k) == complex_mul(W(k, n), odd[k])
         IN /\ \A k \in 0 .. half - 1 :
                 /\ data[k] = Cx(DAdd(even[k].real, t(k).real),
                                 DAdd(even[k].imag, t(k).imag))
                 /\ data[k + half] = Cx(DSub(even[k].real, t(k).real),
                                        DSub(even[k].imag, t(k).imag))
            /\ \A k \in 0 .. n - 1 : data[k] = RefDFT(x0, n, k)

\* A transform of 4 entries whose bins 1 and 3 differ: the sign of the
\* angle shows.
C23_Witness ==
  /\ calls = <<"fft_recursive">>
  /\ n = 4
  /\ data[1] # data[3]
  /\ data[1] = RefDFT(x0, 4, 1)

\* The p with 2^p = k, for k a power of two.
Log2(k) == CHOOSE p \in 0 .. k : 2 ^ p = k

\* C30: for n = 2^p and no allocation failure, fft_recursive(data, n)
\* terminates (after 2n-1 invocations), its recursion is never deeper than
\* p nested calls below the top-level call, it writes only data[0..n-1],
\* and every temporary even/odd buffer is freed exactly once: the live
\* blocks are those from before the call.
C30_RecursionIsBoundedAndClean ==
  (calls = <<"fft_recursive">>) =>
    /\ Len(heap.trace) = 2 * n - 1
    /\ heap.deepest - 1 <= Log2(n)
    /\ heap.depth = 0
    /\ \A j \in DOMAIN data : j >= n => data[j] = x0[j]
    /\ ~heap.fault
    /\ heap.live = {BufferBlock}
    /\ heap.calls = 2 * (n - 1)

\* A transform of the first 2 entries of a buffer of 4: one level of
\* recursion, two temporary buffers, the tail of the buffer untouched.
C30_Witness ==
  /\ calls = <<"fft_recursive">>
  /\ n = 2 /\ DOMAIN data = 0 .. 3
  /\ data # x0
  /\ heap.deepest = 2
  /\ heap.calls = 2
  /\ heap.live = {BufferBlock}

\* The powers of two an int can hold.
PowersOfTwo == {2 ^ p : p \in 0 .. 30}

\* C26: next_power_of_2(n) terminates for every 32-bit signed int n and
\* returns a power of two >= n, also for n > 2^30, where power *= 2 leaves
\* the range of int.
C26_NextPowerOfTwoTerminates ==
  /\ <>(pc = "returned")
  /\ [](pc = "returned" => (power \in PowersOfTwo /\ power >= n /\ ~fault))

\* C27: get_user_choice(min, max) returns only a value v with
\* min <= v <= max, prints the prompt again after every invalid entry, and
\* eventually returns on every input stream, also on one that reaches
\* end-of-input before a valid choice was read.
C27_ChoiceReturnsInRange ==
  /\ [](pc = "returned" => (choice >= min /\ choice <= max))
  /\ [](pc \in {"scanf", "returned"} => prompts = rejects + 1)
  /\ <>(pc = "returned")

\* A choice other than 0.
IsDemoChoice(k) == k # 0
\* The demos bound to the choices of seq, in order.
DemosOf(seq) == [i \in 1 .. Len(seq) |-> DemoOf(seq[i])]
\* The choices main has acted on: all that were returned, but the last one
\* while the switch has not run.
ChoicesActedOn ==
  IF pc = "switch" THEN SubSeq(returned, 1, Len(returned) - 1) ELSE returned

\* The bookkeeping of the menu loop in every state.
MenuLoopState ==
  /\ init_calls = (IF pc = "main" THEN 0 ELSE 1)
  /\ \A i \in 1 .. Len(returned) :
       /\ returned[i] \in 0 .. 7
       /\ returned[i] = 0 => i = Len(returned)
  /\ demos = DemosOf(SelectSeq(ChoicesActedOn, IsDemoChoice))
  /\ cleanup_calls = (IF pc = "exited" THEN 1 ELSE 0)
  /\ exit_status = (IF pc = "exited" THEN 0 ELSE NoStatus)
  /\ pc = "exited" => (returned # << >> /\ main_choice = 0)

\* C21: main calls init_visualization once; for every accepted choice in
\* 1 .. 7 it runs exactly the demo bound to it and returns to the menu; on
\* choice 0 it runs no demo, calls cleanup_visualization exactly once and
\* exits with status 0, and no demo runs after 0 was chosen; the input of
\* the test target (7, then 0) runs the tutorial once and exits with 0.
C21_MenuLoop ==
  /\ []MenuLoopState
  /\ (pc = "switch" /\ main_choice \in 1 .. 7) ~> (pc = "menu")
  /\ (pc = "switch" /\ main_choice = 0) ~> (pc = "exited")
  /\ (pc = "main" /\ stdin = MakeTestInput) ~>
       (pc = "exited" /\ demos = <<"run_interactive_demo">>)

====
